---- MODULE Spec2Model ----
(***************************************************************************)
(* Model of src-tauri/src/lib.rs of mmvisual: the shared AppState behind   *)
(* one Mutex, the tracking loop mmrun spawned by mmstart, and the tauri    *)
(* commands mmstart, send_log, read_devices, parse_map, start_record and   *)
(* stop_record.                                                            *)
(*                                                                         *)
(* Every command takes the mutex in its first statement and keeps it to    *)
(* its last, so a command is two steps: Call (the invocation reaches the   *)
(* handler, which then waits for the mutex) and the handler's whole body,  *)
(* run in one step when the mutex is free.  mmrun keeps the mutex over     *)
(* several statements, so the loop is modelled statement by statement.    *)
(***************************************************************************)
EXTENDS Integers, Sequences, FiniteSets, TLC

\* ------------------------------------------------------------------ bounds
\* Largest update_time (milliseconds since UNIX_EPOCH) the driver reports.
MaxTime == 2
\* Most messages the presentation layer sends or causes through send_log
\* (the loop's own error report is not capped).
MaxLog == 1

\* --------------------------------------------------------------- constants
LOG_PATH == "log.csv"
Header == "address,x,y,z,q,t"
UNIX_EPOCH == 0
\* LOG_PATH before any File::create.
NoFile == [exists |-> FALSE, lines |-> <<>>]
None == "None"
Some == "Some"

\* mm::DeviceType: the four variants mmrun matches as hedgehogs, and one
\* of the others.
HedgeTypes == {"SuperBeaconHedgedog", "BeaconHwV45Hedgehog",
               "BeaconHwV49Hedgehog", "IndustrialSuperBeaconHedgedog"}
DeviceTypes == HedgeTypes \cup {"SuperBeacon"}

\* The command threads of the presentation layer.
Threads == {"t1", "t2"}

VARIABLES
    is_mmrunning,   \* AppState.is_mmrunning
    devices,        \* AppState.devices : Vec<TRDevice>
    savefile,       \* AppState.savefile : Option<File> (None or Some)
    mutex,          \* holder of Mutex<AppState>: "free" or "mmrun"
    poisoned,       \* the mutex is poisoned (a holder panicked)
    file,           \* LOG_PATH on disk: whether it exists, and its lines
    pc,             \* mmrun's position
    device_list,    \* mmrun's local device_list (mm::DeviceList)
    idx,            \* position of mmrun's for loops in device_list
    prev_time,      \* mmrun's local prev_time
    launched,       \* number of times spawn(mmrun) was executed
    call,           \* per thread: the pending command and its argument
    reply,          \* the last value a command returned to the caller
    emitted         \* messages emitted as "log-message" events, in order

vars == <<is_mmrunning, devices, savefile, mutex, poisoned, file, pc,
          device_list, idx, prev_time, launched, call, reply, emitted>>


\* ------------------------------------------------------- the driver's data
\* What the positioning driver can report for one device: raw millimetre
\* coordinates and the quality byte.
Locations ==
    { [x |-> -1500, y |-> 250,  z |-> 0,   q |-> 0],
      [x |-> 3500,  y |-> 4750, z |-> 120, q |-> 100] }

Times == 1..MaxTime

\* The devices the driver knows, by address, and the lists it hands out.
Hedge1 == [address |-> 1, dtype |-> "BeaconHwV49Hedgehog"]
Hedge2 == [address |-> 2, dtype |-> "SuperBeaconHedgedog"]
Beacon3 == [address |-> 3, dtype |-> "SuperBeacon"]
\* The device at address 3 after it was switched to hedgehog mode.
Tag3 == [address |-> 3, dtype |-> "BeaconHwV45Hedgehog"]
Rosters == { <<Beacon3, Hedge1>>, <<Hedge1, Hedge2>>, <<Tag3, Hedge1>> }

Device(id, loc, t) ==
    [address |-> id.address, dtype |-> id.dtype, x |-> loc.x, y |-> loc.y,
     z |-> loc.z, q |-> loc.q, update_time |-> t]

\* What the driver reports for one device.  The update_time of a sample
\* that mmrun never compares (quality 0, or not a hedgehog) is held at 1, and
\* the second hedgehog and the switched device always have a fix, the
\* latter at time 1, to keep the lists few.
Reports(id) ==
    { r \in Locations \X Times :
        /\ (r[1].q = 0 \/ id.dtype \notin HedgeTypes) => r[2] = 1
        /\ id.address = 2 => r[1].q > 0
        /\ id = Tag3 => r[1].q > 0 /\ r[2] = 1 }

\* Every device list the driver hands out, at get_device_list and after
\* update_last_locations.
DeviceLists ==
    UNION { { [i \in 1..Len(r) |-> Device(r[i], f[i][1], f[i][2])] :
                f \in { g \in [1..Len(r) -> Locations \X Times] :
                          \A i \in 1..Len(r) : g[i] \in Reports(r[i]) } } :
            r \in Rosters }

\* ------------------------------------------------------------ pure helpers
\* matches!(device.dtype(), ...Hedgehog variants)
IsHedge(dtype) == dtype \in HedgeTypes

\* `v as f64 / 1000.0`: millimetres to metres, held as whole metres plus
\* thousandths (whole + milli/1000, milli in 0..999).
MmToM(v) == [whole |-> v \div 1000, milli |-> v % 1000]

\* The TRDevice mmrun builds for a discovered device.
NewTRDevice(device) ==
    [address |-> device.address,
     is_hedge |-> IsHedge(device.dtype),
     x |-> MmToM(device.x),
     y |-> MmToM(device.y),
     q |-> device.q]

\* devices.iter_mut().find(|d| d.address == address): the index of the first
\* record with that address, 0 for none.
Find(devs, address) ==
    LET hits == { k \in 1..Len(devs) : devs[k].address = address }
    IN  IF hits = {} THEN 0
        ELSE CHOOSE k \in hits : \A j \in hits : k <= j

\* update_time.duration_since(UNIX_EPOCH).unwrap().as_millis()
AsMillis(t) == t - UNIX_EPOCH

\* format!("{},{},{},{},{},{}\n", ...) without the line end.
FormatRow(device) ==
    ToString(device.address) \o "," \o ToString(device.x) \o "," \o
    ToString(device.y) \o "," \o ToString(device.z) \o "," \o
    ToString(device.q) \o "," \o ToString(AsMillis(device.update_time))

\* ------------------------------------------------------ configuration files
\* An ini file is a function from section names to the section's (key, value)
\* pairs in file order.  A key is held as head \o tail where head is the
\* prefix parse_ini tests with starts_with ("Floor", "beacon") or "" when it
\* has neither, so key[6..] of a beacon key is its tail.
Key(head, tail) == [head |-> head, tail |-> tail]
Plain(name) == Key("", name)

\* str::parse::<f64>, ::<u32> and ::<u8> on the strings the files use; a
\* string outside the table does not parse.
F64Table ==
    [s \in {"1.0", "2.0", "10.0", "3.5", "4.5"} |->
        CASE s = "1.0"  -> [whole |-> 1,  milli |-> 0]
          [] s = "2.0"  -> [whole |-> 2,  milli |-> 0]
          [] s = "10.0" -> [whole |-> 10, milli |-> 0]
          [] s = "3.5"  -> [whole |-> 3,  milli |-> 500]
          [] s = "4.5"  -> [whole |-> 4,  milli |-> 500]]
U32Table == [s \in {"0", "1", "2", "3", "4", "300"} |->
                CASE s = "0" -> 0 [] s = "1" -> 1 [] s = "2" -> 2
                  [] s = "3" -> 3 [] s = "4" -> 4 [] s = "300" -> 300]
ParsesF64(s) == s \in DOMAIN F64Table
ParsesU32(s) == s \in DOMAIN U32Table
ParsesU8(s) == s \in DOMAIN U32Table /\ U32Table[s] <= 255

\* The image files on disk: their bytes, and the extension of their path
\* ("" for a path without one).
ImageFiles ==
    [p \in {"floor.png", "empty.png", "floor"} |->
        CASE p = "floor.png" -> [data |-> <<137, 80>>, ext |-> "png"]
          [] p = "empty.png" -> [data |-> <<>>, ext |-> "png"]
          [] p = "floor"     -> [data |-> <<137, 80>>, ext |-> ""]]

\* Ini section lookups: section(Some(name)) and Properties::get(key), the
\* value of the first pair with that key.
HasSection(ini, name) == name \in DOMAIN ini
HasKey(sec, key) == \E i \in 1..Len(sec) : sec[i][1] = key
Get(sec, key) ==
    sec[CHOOSE i \in 1..Len(sec) :
            sec[i][1] = key /\ \A j \in 1..(i - 1) : sec[j][1] # key][2]

Err == [ok |-> FALSE]
Ok(devs, plan) == [ok |-> TRUE, devices |-> devs, plan |-> plan]

\* The floorplan loop of parse_ini: the first key starting with "Floor"
\* decides data and ext; 0 when no key has the prefix.
FirstFloor(sec) ==
    LET hits == { i \in 1..Len(sec) : sec[i][1].head = "Floor" }
    IN  IF hits = {} THEN 0 ELSE CHOOSE i \in hits : \A j \in hits : i <= j

\* The devices loop that, where a `?` fires on a missing beacon section,
\* returns the devices pushed so far.
RECURSIVE ParseBeaconsPartial(_, _, _, _)
ParseBeaconsPartial(ini, sec, i, acc) ==
    IF i > Len(sec) THEN [ok |-> TRUE, devices |-> acc]
    ELSE
      LET key == sec[i][1]
          value == sec[i][2]
          name == "beacon " \o key.tail
          rest(a) == ParseBeaconsPartial(ini, sec, i + 1, a)
      IN  IF key.head # "beacon" THEN rest(acc)
          ELSE IF ~ParsesU32(value) THEN Err
          ELSE IF U32Table[value] # 1 THEN rest(acc)
          ELSE IF ~HasSection(ini, name)
               THEN [ok |-> TRUE, devices |-> acc]
          ELSE IF ~HasKey(ini[name], Plain("Hedgehog_mode")) THEN Err
          ELSE IF Get(ini[name], Plain("Hedgehog_mode")) # "0" THEN rest(acc)
          ELSE rest(Append(acc,
                  [address |-> U32Table[key.tail],
                   is_hedge |-> FALSE,
                   x |-> F64Table[Get(ini[name], Plain("Position_X"))],
                   y |-> F64Table[Get(ini[name], Plain("Position_Y"))],
                   q |-> 0]))

\* The devices loop that skips a beacon key whose value is not an integer.
RECURSIVE ParseBeaconsLenient(_, _, _, _)
ParseBeaconsLenient(ini, sec, i, acc) ==
    IF i > Len(sec) THEN [ok |-> TRUE, devices |-> acc]
    ELSE
      LET key == sec[i][1]
          value == sec[i][2]
          name == "beacon " \o key.tail
          rest(a) == ParseBeaconsLenient(ini, sec, i + 1, a)
      IN  IF key.head # "beacon" THEN rest(acc)
          ELSE IF ~ParsesU32(value) THEN rest(acc)
          ELSE IF U32Table[value] # 1 THEN rest(acc)
          ELSE IF ~HasSection(ini, name) THEN Err
          ELSE IF ~HasKey(ini[name], Plain("Hedgehog_mode")) THEN Err
          ELSE IF Get(ini[name], Plain("Hedgehog_mode")) # "0" THEN rest(acc)
          ELSE IF ~HasKey(ini[name], Plain("Position_X")) THEN Err
          ELSE IF ~ParsesF64(Get(ini[name], Plain("Position_X"))) THEN Err
          ELSE IF ~HasKey(ini[name], Plain("Position_Y")) THEN Err
          ELSE IF ~ParsesF64(Get(ini[name], Plain("Position_Y"))) THEN Err
          ELSE IF ~ParsesU8(key.tail) THEN Err
          ELSE rest(Append(acc,
                  [address |-> U32Table[key.tail],
                   is_hedge |-> FALSE,
                   x |-> F64Table[Get(ini[name], Plain("Position_X"))],
                   y |-> F64Table[Get(ini[name], Plain("Position_Y"))],
                   q |-> 0]))

\* The devices loop of parse_ini from pair i on, with the devices pushed so
\* far: Err as soon as a `?` fires, the whole list at the end.
RECURSIVE ParseBeacons(_, _, _, _)
ParseBeacons(ini, sec, i, acc) ==
    IF i > Len(sec) THEN [ok |-> TRUE, devices |-> acc]
    ELSE
      LET key == sec[i][1]
          value == sec[i][2]
          index == key.tail
          name == "beacon " \o index
          rest(a) == ParseBeacons(ini, sec, i + 1, a)
      IN  IF key.head # "beacon" THEN rest(acc)
          ELSE IF ~ParsesU32(value) THEN Err
          ELSE IF U32Table[value] # 1 THEN rest(acc)
          ELSE IF ~HasSection(ini, name) THEN Err
          ELSE
            LET beacon == ini[name]
            IN  IF ~HasKey(beacon, Plain("Hedgehog_mode")) THEN Err
                ELSE IF Get(beacon, Plain("Hedgehog_mode")) # "0"
                     THEN rest(acc)
                ELSE IF ~HasKey(beacon, Plain("Position_X")) THEN Err
                ELSE IF ~ParsesF64(Get(beacon, Plain("Position_X")))
                     THEN Err
                ELSE IF ~HasKey(beacon, Plain("Position_Y")) THEN Err
                ELSE IF ~ParsesF64(Get(beacon, Plain("Position_Y")))
                     THEN Err
                ELSE IF ~ParsesU8(index) THEN Err
                ELSE rest(Append(acc,
                        [address |-> U32Table[index],
                         is_hedge |-> FALSE,
                         x |-> F64Table[Get(beacon, Plain("Position_X"))],
                         y |-> F64Table[Get(beacon, Plain("Position_Y"))],
                         q |-> 0]))

\* parse_ini on what Ini::load_from_file_noescape finds at the path: loaded
\* is FALSE when the file cannot be read.
ParseIni(found) ==
    IF ~found.loaded THEN Err
    ELSE IF ~HasSection(found.ini, "floorplan") THEN Err
    ELSE
      LET ini == found.ini
          floorplan == ini["floorplan"]
          num(k) == HasKey(floorplan, Plain(k))
                    /\ ParsesF64(Get(floorplan, Plain(k)))
          f == FirstFloor(floorplan)
      IN  IF ~num("shift_x_m") \/ ~num("shift_y_m")
             \/ ~num("scale_pixels_per_m") THEN Err
          ELSE IF f # 0 /\ floorplan[f][2] \notin DOMAIN ImageFiles THEN Err
          ELSE IF f # 0 /\ ImageFiles[floorplan[f][2]].ext = "" THEN Err
          ELSE IF f = 0 \/ ImageFiles[floorplan[f][2]].data = <<>> THEN Err
          ELSE IF ~HasSection(ini, "devices") THEN Err
          ELSE
            LET got == ParseBeacons(ini, ini["devices"], 1, <<>>)
                plan == [x |-> F64Table[Get(floorplan, Plain("shift_x_m"))],
                         y |-> F64Table[Get(floorplan, Plain("shift_y_m"))],
                         scale_pixels_per_m |->
                            F64Table[Get(floorplan,
                                         Plain("scale_pixels_per_m"))],
                         data |-> ImageFiles[floorplan[f][2]].data,
                         ext |-> ImageFiles[floorplan[f][2]].ext]
            IN  IF got.ok THEN Ok(got.devices, plan) ELSE Err

\* The configuration files the presentation layer can name.
GoodIni ==
    [s \in {"floorplan", "devices", "beacon 1", "beacon 3"} |->
        CASE s = "floorplan" ->
                << <<Plain("shift_x_m"), "1.0">>,
                   <<Plain("shift_y_m"), "2.0">>,
                   <<Plain("scale_pixels_per_m"), "10.0">>,
                   <<Key("Floor", "1_FILE"), "floor.png">> >>
          [] s = "devices" ->
                << <<Plain("hedges"), "1">>,
                   <<Key("beacon", "1"), "1">>,
                   <<Key("beacon", "2"), "0">>,
                   <<Key("beacon", "3"), "1">> >>
          [] s = "beacon 1" ->
                << <<Plain("Hedgehog_mode"), "1">> >>
          [] s = "beacon 3" ->
                << <<Plain("Hedgehog_mode"), "0">>,
                   <<Plain("Position_X"), "3.5">>,
                   <<Plain("Position_Y"), "4.5">> >>]
NoScaleIni ==
    [GoodIni EXCEPT !["floorplan"] =
        << <<Plain("shift_x_m"), "1.0">>, <<Plain("shift_y_m"), "2.0">>,
           <<Key("Floor", "1_FILE"), "floor.png">> >>]
\* Edits of a file: a section replaced or added, a section removed, a pair
\* removed from a section, a pair's value replaced, a pair added at the end.
With(ini, name, sec) ==
    [s \in DOMAIN ini \cup {name} |-> IF s = name THEN sec ELSE ini[s]]
Without(ini, name) == [s \in DOMAIN ini \ {name} |-> ini[s]]
Drop(sec, key) ==
    LET keep == { i \in 1..Len(sec) : sec[i][1] # key }
        nth(n) == CHOOSE i \in keep :
                    Cardinality({ j \in keep : j <= i }) = n
    IN  [n \in 1..Cardinality(keep) |-> sec[nth(n)]]
Put(sec, key, value) ==
    [i \in 1..Len(sec) |-> IF sec[i][1] = key THEN <<key, value>> ELSE sec[i]]
InFloorplan(sec) == With(GoodIni, "floorplan", sec)
Enable(ini, index) ==
    With(ini, "devices", Append(ini["devices"], <<Key("beacon", index), "1">>))

\* A fourth beacon, fixed, enabled after beacon 3.
Beacon4 == << <<Plain("Hedgehog_mode"), "0">>,
              <<Plain("Position_X"), "1.0">>,
              <<Plain("Position_Y"), "2.0">> >>
TwoBeaconsIni == With(Enable(GoodIni, "4"), "beacon 4", Beacon4)

\* The files on disk, by path; a path not listed cannot be read.
IniFiles ==
    [path \in {"good.ini", "two.ini", "mode.ini", "noscale.ini",
               "nofloorplan.ini", "noshift.ini", "badscale.ini",
               "nofloor.ini", "gonefloor.ini", "emptyfloor.ini",
               "noext.ini", "nodevices.ini", "nosection.ini", "nomode.ini",
               "nox.ini", "bady.ini", "bigindex.ini", "off.ini",
               "nonint.ini"} |->
        CASE path = "good.ini" -> GoodIni
          [] path = "two.ini" -> TwoBeaconsIni
          [] path = "mode.ini" ->
                With(TwoBeaconsIni, "beacon 4",
                     << <<Plain("Hedgehog_mode"), "yes">> >>)
          [] path = "noscale.ini" -> NoScaleIni
          [] path = "nofloorplan.ini" -> Without(GoodIni, "floorplan")
          [] path = "noshift.ini" ->
                InFloorplan(Drop(GoodIni["floorplan"], Plain("shift_y_m")))
          [] path = "badscale.ini" ->
                InFloorplan(Put(GoodIni["floorplan"],
                                Plain("scale_pixels_per_m"), "wide"))
          [] path = "nofloor.ini" ->
                InFloorplan(Drop(GoodIni["floorplan"], Key("Floor", "1_FILE")))
          [] path = "gonefloor.ini" ->
                InFloorplan(Put(GoodIni["floorplan"],
                                Key("Floor", "1_FILE"), "gone.png"))
          [] path = "emptyfloor.ini" ->
                InFloorplan(Put(GoodIni["floorplan"],
                                Key("Floor", "1_FILE"), "empty.png"))
          [] path = "noext.ini" ->
                InFloorplan(Put(GoodIni["floorplan"],
                                Key("Floor", "1_FILE"), "floor"))
          [] path = "nodevices.ini" -> Without(GoodIni, "devices")
          [] path = "nosection.ini" -> Enable(GoodIni, "4")
          [] path = "nomode.ini" ->
                With(TwoBeaconsIni, "beacon 4",
                     Drop(Beacon4, Plain("Hedgehog_mode")))
          [] path = "nox.ini" ->
                With(TwoBeaconsIni, "beacon 4",
                     Drop(Beacon4, Plain("Position_X")))
          [] path = "bady.ini" ->
                With(TwoBeaconsIni, "beacon 4",
                     Put(Beacon4, Plain("Position_Y"), "north"))
          [] path = "bigindex.ini" ->
                With(Enable(GoodIni, "300"), "beacon 300", Beacon4)
          [] path = "off.ini" ->
                With(TwoBeaconsIni, "devices",
                     Put(TwoBeaconsIni["devices"], Key("beacon", "4"), "2"))
          [] path = "nonint.ini" ->
                With(TwoBeaconsIni, "devices",
                     Put(TwoBeaconsIni["devices"], Key("beacon", "4"), "on"))]

GoodPaths == {"good.ini"}
Paths == DOMAIN IniFiles \cup {"missing.ini"}
IniFile(path) ==
    IF path \in DOMAIN IniFiles
    THEN [loaded |-> TRUE, ini |-> IniFiles[path]]
    ELSE [loaded |-> FALSE, ini |-> <<>>]

\* parse_ini(path) for each path, computed once.
ParseResult == [path \in Paths |-> ParseIni(IniFile(path))]

\* ------------------------------------------------------------------- Init
Idle == [cmd |-> "idle", arg |-> ""]
NoReply == [cmd |-> "none", val |-> <<>>]

\* run(): app.manage(Mutex::new(AppState { false, Vec::new(), None })); the
\* loop is not spawned, no command is pending, nothing was emitted.
Init ==
    /\ is_mmrunning = FALSE
    /\ devices = <<>>
    /\ savefile = None
    /\ mutex = "free"
    /\ poisoned = FALSE
    /\ file = NoFile
    /\ pc = "unspawned"
    /\ device_list = <<>>
    /\ idx = 0
    /\ prev_time = UNIX_EPOCH
    /\ launched = 0
    /\ call = [t \in Threads |-> Idle]
    /\ reply = NoReply
    /\ emitted = <<>>

\* send_log: app.emit("log-message", &msg)
Emit(log, msg) == Append(log, msg)

\* Messages the presentation layer sent or caused (all but mmrun's report).
SourceErrors == {"open_port failed", "get_device_list failed",
                 "update_last_locations failed"}
UiMessages(log) == Cardinality({ i \in 1..Len(log) : log[i] \notin SourceErrors })

\* ------------------------------------------------------------ the commands
\* The commands whose body starts with state.lock().unwrap().
Locking == {"mmstart", "read_devices", "start_record", "stop_record"}

\* The presentation layer invokes one of the locking commands cmds on
\* thread t; the handler now waits for the mutex.
Call(t, cmds) ==
    /\ call[t] = Idle
    /\ \E c \in cmds : call' = [call EXCEPT ![t] = [cmd |-> c, arg |-> ""]]
    /\ UNCHANGED <<is_mmrunning, devices, savefile, mutex, poisoned, file,
                   pc, device_list, idx, prev_time, launched, reply, emitted>>

\* A handler that does not wait for the mutex.
AcquireNoWait(t, c) ==
    /\ call[t].cmd = c
    /\ ~poisoned

\* The handler acquires the mutex (lock() returned Ok).
Acquire(t, c) ==
    /\ call[t].cmd = c
    /\ mutex = "free"
    /\ ~poisoned

\* lock() returns Err(PoisonError) and unwrap() panics: the command ends
\* without touching the state and without a reply.
LockPanics(t) ==
    /\ call[t].cmd \in Locking
    /\ mutex = "free"
    /\ poisoned
    /\ call' = [call EXCEPT ![t] = Idle]
    /\ UNCHANGED <<is_mmrunning, devices, savefile, mutex, poisoned, file,
                   pc, device_list, idx, prev_time, launched, reply, emitted>>

\* mmstart without the is_mmrunning test.
MmStartUnguarded(t) ==
    /\ Acquire(t, "mmstart")
    /\ is_mmrunning' = TRUE
    /\ pc' = "open"
    /\ launched' = launched + 1
    /\ call' = [call EXCEPT ![t] = Idle]
    /\ UNCHANGED <<devices, savefile, mutex, poisoned, file, device_list,
                   idx, prev_time, reply, emitted>>

\* mmstart: return when is_mmrunning, else set it and spawn mmrun.
MmStart(t) ==
    /\ Acquire(t, "mmstart")
    /\ IF is_mmrunning
       THEN UNCHANGED <<is_mmrunning, pc, launched>>
       ELSE /\ is_mmrunning' = TRUE
            /\ pc' = "open"
            /\ launched' = launched + 1
    /\ call' = [call EXCEPT ![t] = Idle]
    /\ UNCHANGED <<devices, savefile, mutex, poisoned, file, device_list,
                   idx, prev_time, reply, emitted>>

\* read_devices: state.devices.clone()
ReadDevices(t) ==
    /\ Acquire(t, "read_devices")
    /\ reply' = [cmd |-> "read_devices", val |-> devices]
    /\ call' = [call EXCEPT ![t] = Idle]
    /\ UNCHANGED <<is_mmrunning, devices, savefile, mutex, poisoned, file,
                   pc, device_list, idx, prev_time, launched, emitted>>

\* start_record that also takes the watermark back to the epoch.
StartRecordResetsWatermark(t) ==
    /\ Acquire(t, "start_record")
    /\ savefile' = Some
    /\ file' = [exists |-> TRUE, lines |-> <<Header>>]
    /\ prev_time' = UNIX_EPOCH
    /\ call' = [call EXCEPT ![t] = Idle]
    /\ UNCHANGED <<is_mmrunning, devices, mutex, poisoned, pc, device_list,
                   idx, launched, reply, emitted>>

\* start_record: File::create(LOG_PATH).unwrap() truncates or creates the
\* file, the handle replaces savefile, the header is written and unwrapped.
\* Either unwrap panics on an io error, with the mutex held.
StartRecord(t) ==
    /\ Acquire(t, "start_record")
    /\ \E created \in BOOLEAN, written \in BOOLEAN :
          IF ~created
          THEN /\ poisoned' = TRUE
               /\ UNCHANGED <<savefile, file>>
          ELSE /\ savefile' = Some
               /\ file' = [exists |-> TRUE,
                           lines |-> IF written THEN <<Header>> ELSE <<>>]
               /\ poisoned' = ~written
    /\ call' = [call EXCEPT ![t] = Idle]
    /\ UNCHANGED <<is_mmrunning, devices, mutex, pc, device_list, idx,
                   prev_time, launched, reply, emitted>>

\* stop_record that also clears the run flag.
StopRecordStopsTracking(t) ==
    /\ Acquire(t, "stop_record")
    /\ savefile' = None
    /\ is_mmrunning' = FALSE
    /\ call' = [call EXCEPT ![t] = Idle]
    /\ UNCHANGED <<devices, mutex, poisoned, file, pc, device_list, idx,
                   prev_time, launched, reply, emitted>>

\* stop_record: state.savefile = None
StopRecord(t) ==
    /\ Acquire(t, "stop_record")
    /\ savefile' = None
    /\ call' = [call EXCEPT ![t] = Idle]
    /\ UNCHANGED <<is_mmrunning, devices, mutex, poisoned, file, pc,
                   device_list, idx, prev_time, launched, reply, emitted>>

\* parse_map that seeds the registry with the devices it parsed.
ParseMapSeeds(t, paths) ==
    /\ call[t] = Idle
    /\ \E path \in paths :
          LET got == ParseResult[path]
          IN  /\ got.ok
              /\ devices' = devices \o got.devices
              /\ reply' = [cmd |-> "parse_map",
                           val |-> [devices |-> got.devices,
                                    plan |-> <<got.plan>>]]
    /\ UNCHANGED <<is_mmrunning, savefile, mutex, poisoned, file, pc,
                   device_list, idx, prev_time, launched, call, emitted>>

\* parse_map(path) for a path among paths: takes no lock.  Ok: (devices,
\* Some(plan)); Err: the message is emitted and (empty, None) returned.
ParseMap(t, paths) ==
    /\ call[t] = Idle
    /\ \E path \in paths :
          LET got == ParseResult[path]
          IN  IF got.ok
              THEN /\ reply' = [cmd |-> "parse_map",
                                val |-> [devices |-> got.devices,
                                         plan |-> <<got.plan>>]]
                   /\ UNCHANGED emitted
              ELSE /\ UiMessages(emitted) < MaxLog
                   /\ emitted' = Emit(emitted, "failed to parse ini map file")
                   /\ reply' = [cmd |-> "parse_map",
                                val |-> [devices |-> <<>>, plan |-> <<>>]]
    /\ UNCHANGED <<is_mmrunning, devices, savefile, mutex, poisoned, file,
                   pc, device_list, idx, prev_time, launched, call>>

\* send_log(msg) invoked by the presentation layer: takes no lock.
SendLog(t) ==
    /\ call[t] = Idle
    /\ UiMessages(emitted) < MaxLog
    /\ emitted' = Emit(emitted, "status")
    /\ UNCHANGED <<is_mmrunning, devices, savefile, mutex, poisoned, file,
                   pc, device_list, idx, prev_time, launched, call, reply>>

\* ------------------------------------------------------- the loop, mmrun
\* unwrap_or_return! that reports and starts over instead of returning.
ReportAndRetry(msg) ==
    /\ emitted' = Emit(emitted, msg)
    /\ pc' = "open"

\* unwrap_or_return!: on Err the message goes to send_log and mmrun returns.
Report(msg) ==
    /\ emitted' = Emit(emitted, msg)
    /\ pc' = "returned"

\* mm::open_port(5), outside the mutex.
OpenPort ==
    /\ pc = "open"
    /\ \/ pc' = "list" /\ UNCHANGED emitted
       \/ Report("open_port failed")
    /\ UNCHANGED <<is_mmrunning, devices, savefile, mutex, poisoned, file,
                   device_list, idx, prev_time, launched, call, reply>>

\* mm::get_device_list(), outside the mutex.
GetDeviceList ==
    /\ pc = "list"
    /\ \/ /\ \E l \in DeviceLists : device_list' = l
          /\ pc' = "seed_lock"
          /\ UNCHANGED emitted
       \/ Report("get_device_list failed") /\ UNCHANGED device_list
    /\ UNCHANGED <<is_mmrunning, devices, savefile, mutex, poisoned, file,
                   idx, prev_time, launched, call, reply>>

\* state.lock().unwrap() in mmrun, before seeding (next = "seed") and in
\* each iteration (next = "merge"): a poisoned mutex panics the task.
LoopLock(at, next) ==
    /\ pc = at
    /\ mutex = "free"
    /\ IF poisoned
       THEN pc' = "panicked" /\ UNCHANGED <<mutex, idx>>
       ELSE pc' = next /\ mutex' = "mmrun" /\ idx' = 1
    /\ UNCHANGED <<is_mmrunning, devices, savefile, poisoned, file,
                   device_list, prev_time, launched, call, reply, emitted>>

SeedLock == LoopLock("seed_lock", "seed")

\* One turn of the seeding loop: push the TRDevice of device_list[idx].
SeedPush ==
    /\ pc = "seed"
    /\ idx <= Len(device_list)
    /\ devices' = Append(devices, NewTRDevice(device_list[idx]))
    /\ idx' = idx + 1
    /\ UNCHANGED <<is_mmrunning, savefile, mutex, poisoned, file, pc,
                   device_list, prev_time, launched, call, reply, emitted>>

\* drop(state_lock) after the seeding loop.
SeedDone ==
    /\ pc = "seed"
    /\ idx > Len(device_list)
    /\ mutex' = "free"
    /\ pc' = "seeded"
    /\ idx' = 0
    /\ UNCHANGED <<is_mmrunning, devices, savefile, poisoned, file,
                   device_list, prev_time, launched, call, reply, emitted>>

\* let mut prev_time = SystemTime::UNIX_EPOCH; and the loop is entered.
InitPrevTime ==
    /\ pc = "seeded"
    /\ prev_time' = UNIX_EPOCH
    /\ pc' = "refresh"
    /\ UNCHANGED <<is_mmrunning, devices, savefile, mutex, poisoned, file,
                   device_list, idx, launched, call, reply, emitted>>

\* device_list.update_last_locations(), outside the mutex.
Refresh ==
    /\ pc = "refresh"
    /\ \/ /\ \E l \in DeviceLists : device_list' = l
          /\ pc' = "merge_lock"
          /\ UNCHANGED emitted
       \/ Report("update_last_locations failed") /\ UNCHANGED device_list
    /\ UNCHANGED <<is_mmrunning, devices, savefile, mutex, poisoned, file,
                   idx, prev_time, launched, call, reply>>

MergeLock == LoopLock("merge_lock", "merge")

\* The head of the turn without the quality test.
MergeDeviceAnyQuality ==
    /\ pc = "merge"
    /\ idx <= Len(device_list)
    /\ pc' = IF Find(devices, device_list[idx].address) # 0
             THEN "set_x" ELSE "log"
    /\ UNCHANGED <<is_mmrunning, devices, savefile, mutex, poisoned, file,
                   device_list, idx, prev_time, launched, call, reply,
                   emitted>>

\* The head of the turn that inserts a record when find returns None.
MergeDeviceUpsert ==
    /\ pc = "merge"
    /\ idx <= Len(device_list)
    /\ LET device == device_list[idx]
       IN  IF device.q > 0
           THEN IF Find(devices, device.address) # 0
                THEN pc' = "set_x" /\ UNCHANGED <<devices, idx>>
                ELSE /\ devices' = Append(devices, NewTRDevice(device))
                     /\ pc' = "log"
                     /\ UNCHANGED idx
           ELSE /\ idx' = idx + 1
                /\ UNCHANGED <<pc, devices>>
    /\ UNCHANGED <<is_mmrunning, savefile, mutex, poisoned, file,
                   device_list, prev_time, launched, call, reply, emitted>>

\* The head of one turn of the merge loop: the quality test and the find.
MergeDevice ==
    /\ pc = "merge"
    /\ idx <= Len(device_list)
    /\ LET device == device_list[idx]
       IN  IF device.q > 0
           THEN /\ pc' = IF Find(devices, device.address) # 0
                         THEN "set_x" ELSE "log"
                /\ UNCHANGED idx
           ELSE /\ idx' = idx + 1
                /\ UNCHANGED pc
    /\ UNCHANGED <<is_mmrunning, devices, savefile, mutex, poisoned, file,
                   device_list, prev_time, launched, call, reply, emitted>>

\* The last assignment, with the record's class recomputed from the sample.
SetQAndClass ==
    /\ pc = "set_q"
    /\ LET k == Find(devices, device_list[idx].address)
       IN  devices' = [devices EXCEPT
                         ![k].q = device_list[idx].q,
                         ![k].is_hedge = IsHedge(device_list[idx].dtype)]
    /\ pc' = "log"
    /\ UNCHANGED <<is_mmrunning, savefile, mutex, poisoned, file,
                   device_list, idx, prev_time, launched, call, reply,
                   emitted>>

\* The three assignments to the found record.
SetField(at, next, field, value) ==
    /\ pc = at
    /\ devices' = [devices EXCEPT
                     ![Find(devices, device_list[idx].address)][field] = value]
    /\ pc' = next
    /\ UNCHANGED <<is_mmrunning, savefile, mutex, poisoned, file,
                   device_list, idx, prev_time, launched, call, reply,
                   emitted>>

SetX == SetField("set_x", "set_y", "x", MmToM(device_list[idx].x))
SetY == SetField("set_y", "set_q", "y", MmToM(device_list[idx].y))
SetQ == SetField("set_q", "log", "q", device_list[idx].q)

\* The test with < for <=: a sample as old as prev_time is written again.
LoggedNotOlder(sink, device, prev) ==
    /\ sink = Some
    /\ IsHedge(device.dtype)
    /\ ~(device.update_time < prev)

\* The test without the device type: every sample newer than prev_time is
\* written.
LoggedAnyType(sink, device, prev) ==
    /\ sink = Some
    /\ ~(device.update_time <= prev)

\* Whether the sample is written: a sink, a hedgehog type and an update_time
\* newer than prev_time.
Logged(sink, device, prev) ==
    /\ sink = Some
    /\ IsHedge(device.dtype)
    /\ ~(device.update_time <= prev)

\* The tests of the logging part of the turn: the sink, the device type and
\* the update_time; a sample that fails one is passed over.
LogTest ==
    /\ pc = "log"
    /\ IF Logged(savefile, device_list[idx], prev_time)
       THEN pc' = "write" /\ UNCHANGED idx
       ELSE pc' = "merge" /\ idx' = idx + 1
    /\ UNCHANGED <<is_mmrunning, devices, savefile, mutex, poisoned, file,
                   device_list, prev_time, launched, call, reply, emitted>>

\* The write whose failure ends the recording and lets the loop go on.
LogRowStopsRecording ==
    /\ pc = "write"
    /\ LET device == device_list[idx]
       IN  \/ /\ file' = [file EXCEPT !.lines = Append(@, FormatRow(device))]
              /\ prev_time' = device.update_time
              /\ UNCHANGED savefile
           \/ /\ savefile' = None
              /\ UNCHANGED <<file, prev_time>>
    /\ pc' = "merge"
    /\ idx' = idx + 1
    /\ UNCHANGED <<is_mmrunning, devices, mutex, poisoned, device_list,
                   launched, call, reply, emitted>>

\* The row is formatted and written through the sink and prev_time takes the
\* sample's time; write(...).unwrap() panics on an io error with the mutex
\* held, which poisons it and ends the task.
LogRow ==
    /\ pc = "write"
    /\ LET device == device_list[idx]
       IN  \/ /\ file' = [file EXCEPT !.lines = Append(@, FormatRow(device))]
              /\ prev_time' = device.update_time
              /\ pc' = "merge"
              /\ idx' = idx + 1
              /\ UNCHANGED <<mutex, poisoned>>
           \/ /\ poisoned' = TRUE
              /\ mutex' = "free"
              /\ pc' = "panicked"
              /\ UNCHANGED <<file, prev_time, idx>>
    /\ UNCHANGED <<is_mmrunning, devices, savefile, device_list, launched,
                   call, reply, emitted>>

\* The for loop is over: sleep(Duration::from_millis(1)), state_lock still
\* in scope.
MergeDone ==
    /\ pc = "merge"
    /\ idx > Len(device_list)
    /\ pc' = "sleep"
    /\ idx' = 0
    /\ UNCHANGED <<is_mmrunning, devices, savefile, mutex, poisoned, file,
                   device_list, prev_time, launched, call, reply, emitted>>

\* The sleep is over and the iteration ends: state_lock goes out of scope.
Sleep ==
    /\ pc = "sleep"
    /\ mutex' = "free"
    /\ pc' = "refresh"
    /\ UNCHANGED <<is_mmrunning, devices, savefile, poisoned, file,
                   device_list, idx, prev_time, launched, call, reply,
                   emitted>>

\* ------------------------------------------------------ the specifications
\* The steps of mmrun.
Loop ==
    \/ OpenPort
    \/ GetDeviceList
    \/ SeedLock
    \/ SeedPush
    \/ SeedDone
    \/ InitPrevTime
    \/ Refresh
    \/ MergeLock
    \/ MergeDevice
    \/ SetX
    \/ SetY
    \/ SetQ
    \/ LogTest
    \/ LogRow
    \/ MergeDone
    \/ Sleep

\* The whole program: every command from every thread, every path.
FullNext ==
    \/ \E t \in Threads :
          \/ Call(t, Locking)
          \/ LockPanics(t)
          \/ MmStart(t)
          \/ ReadDevices(t)
          \/ StartRecord(t)
          \/ StopRecord(t)
          \/ ParseMap(t, Paths)
          \/ SendLog(t)
    \/ Loop

FullSpec == Init /\ [][FullNext]_vars

\* The program driven as the tauri runtime drives it: the commands are not
\* async, so they are invoked one at a time, on thread t1.  The presentation
\* layer loads well-formed configurations and sends no messages of its own.
Next ==
    \/ Call("t1", Locking)
    \/ LockPanics("t1")
    \/ MmStart("t1")
    \/ ReadDevices("t1")
    \/ StartRecord("t1")
    \/ StopRecord("t1")
    \/ ParseMap("t1", GoodPaths)
    \/ Loop

Spec == Init /\ [][Next]_vars

\* Two threads that race to start tracking and to read, while the first may
\* also begin a recording.
RaceNext ==
    \/ \E t \in Threads :
          \/ Call(t, {"mmstart", "read_devices"})
          \/ MmStart(t)
          \/ ReadDevices(t)
    \/ Call("t1", {"start_record"})
    \/ StartRecord("t1")
    \/ Loop

RaceSpec == Init /\ [][RaceNext]_vars

\* The presentation layer before tracking is started: from either thread it
\* loads configurations, well-formed or not, sends messages, reads the
\* registry and begins and ends recordings.
ParseNext ==
    \E t \in Threads :
        \/ Call(t, {"read_devices", "start_record", "stop_record"})
        \/ LockPanics(t)
        \/ ReadDevices(t)
        \/ StartRecord(t)
        \/ StopRecord(t)
        \/ ParseMap(t, Paths)
        \/ SendLog(t)

ParseSpec == Init /\ [][ParseNext]_vars

\* ------------------------------------------------------------- the claims
\* A step of mmrun.
LoopStep == <<pc, idx>>' # <<pc, idx>>

\* mmrun is in a turn of the merge loop, at device_list[idx].
InTurn == pc \in {"merge", "set_x", "set_y", "set_q", "log", "write"}
            /\ idx \in 1..Len(device_list)

Addresses(devs) == [k \in 1..Len(devs) |-> devs[k].address]

\* The step appends one line to the log file.
Appends == /\ file.exists /\ file'.exists
           /\ Len(file'.lines) = Len(file.lines) + 1
           /\ SubSeq(file'.lines, 1, Len(file.lines)) = file.lines

\* C1: mmrun is launched at most once, whatever the order of the mmstart
\* calls, racing or made after the loop ended on a source failure; an mmstart
\* that finds is_mmrunning true changes nothing but its own return.
C1_LaunchedAtMostOnce ==
    /\ [](launched <= 1)
    /\ [][\A t \in Threads :
            (call[t].cmd = "mmstart" /\ call'[t] = Idle /\ is_mmrunning)
            => UNCHANGED <<is_mmrunning, devices, savefile, mutex, poisoned,
                           file, pc, device_list, idx, prev_time, launched,
                           reply, emitted>>]_vars

\* C1 witness: the loop was launched once and has ended on a source failure,
\* and two mmstart calls race for the mutex.
C1_Witness ==
    /\ launched = 1
    /\ pc = "returned"
    /\ \A t \in Threads : call[t].cmd = "mmstart"

\* C2: is_mmrunning starts false and no step ever takes it from true to
\* false.
C2_RunFlagLatches ==
    /\ ~is_mmrunning
    /\ [][is_mmrunning => is_mmrunning']_vars

\* C2 witness: the flag is still set after a recording was begun and ended
\* and after the loop has ended.
C2_Witness ==
    /\ is_mmrunning
    /\ pc \in {"returned", "panicked"}
    /\ file.exists
    /\ savefile = None

\* C3: a turn for a device of quality 0 changes no record and writes no row;
\* a turn changes no record but the one found for its own address; and every
\* row appended is the row of the turn's device, whose quality is > 0.
C3_QualityZeroIgnored ==
    [][/\ (InTurn /\ pc = "merge" /\ device_list[idx].q = 0 /\ LoopStep)
          => /\ devices' = devices
             /\ file' = file
             /\ prev_time' = prev_time
             /\ pc' = "merge" /\ idx' = idx + 1
       /\ (InTurn /\ LoopStep)
          => \A k \in 1..Len(devices) :
                devices[k].address # device_list[idx].address
                => devices'[k] = devices[k]
       /\ Appends
          => /\ InTurn /\ pc = "write"
             /\ device_list[idx].q > 0
             /\ file'.lines[Len(file'.lines)] = FormatRow(device_list[idx])
      ]_vars

\* C3 witness: the turn of a device of quality 0 is over, a sink is active,
\* and its record still holds the fix merged before.
C3_Witness ==
    /\ pc = "merge" /\ idx = 2
    /\ device_list[1].q = 0
    /\ savefile = Some
    /\ Find(devices, device_list[1].address) # 0
    /\ devices[Find(devices, device_list[1].address)].q > 0

\* C4: once seeded, the registry keeps its addresses and their order for
\* ever, and a turn for an address the registry does not hold changes no
\* record.
C4_UpdatesNeverCreate ==
    [][/\ pc # "seed" => Addresses(devices') = Addresses(devices)
       /\ (InTurn /\ Find(devices, device_list[idx].address) = 0)
          => devices' = devices
      ]_vars

\* C4 witness: a sample with a fix and an address the registry does not hold
\* has passed the merge.
C4_Witness ==
    /\ pc = "log" /\ InTurn
    /\ device_list[idx].q > 0
    /\ devices # <<>>
    /\ Find(devices, device_list[idx].address) = 0

Reported == { i \in 1..Len(emitted) : emitted[i] \in SourceErrors }

\* C6: mmrun has returned exactly when a source error was emitted, which
\* happens at most once and with the failing call's message; from then on
\* the loop stays ended and is not launched again, no record changes, and
\* whatever read_devices returns is the records as they then were.
C6_SourceFailureEndsLoop ==
    /\ [](pc = "returned" <=> Reported # {})
    /\ [](Cardinality(Reported) <= 1)
    /\ [][/\ (pc # "returned" /\ pc' = "returned")
             => emitted' = Append(emitted,
                    CASE pc = "open" -> "open_port failed"
                      [] pc = "list" -> "get_device_list failed"
                      [] pc = "refresh" -> "update_last_locations failed"
                      [] OTHER -> "")
          /\ pc = "returned"
             => /\ pc' = "returned"
                /\ launched' = launched
                /\ devices' = devices
                /\ (reply' # reply /\ reply'.cmd = "read_devices")
                   => reply'.val = devices
         ]_vars

\* C6 witness: a refresh failed after a fix was merged, and a read_devices
\* made since has returned the records with that fix.
C6_Witness ==
    /\ pc = "returned"
    /\ emitted = <<"update_last_locations failed">>
    /\ devices # <<>>
    /\ \E k \in 1..Len(devices) :
          /\ devices[k].q > 0
          /\ \E i \in 1..Len(device_list) :
                /\ device_list[i].address = devices[k].address
                /\ device_list[i].q = 0
    /\ reply = [cmd |-> "read_devices", val |-> devices]

\* C7 as claimed, in the part a finite run decides: a read_devices call ends
\* only by returning the records.
C7_Original ==
    [][\A t \in Threads :
          (call[t].cmd = "read_devices" /\ call'[t] = Idle)
          => reply' = [cmd |-> "read_devices", val |-> devices]]_vars

\* C8: when the startup seeding is over the registry holds, in discovery
\* order, one record per discovered device with its address, its class and
\* its coordinates in metres; every read_devices returns the registry of
\* that moment, never a roster seeded in part; and no step of the loop
\* changes a copy already returned.
C8_SeedSnapshotRoundTrip ==
    /\ [](pc = "seeded"
          => /\ Len(devices) = Len(device_list)
             /\ \A i \in 1..Len(devices) :
                   /\ devices[i].address = device_list[i].address
                   /\ devices[i].is_hedge = (device_list[i].dtype \in HedgeTypes)
                   /\ devices[i].x.whole * 1000 + devices[i].x.milli
                        = device_list[i].x
                   /\ devices[i].y.whole * 1000 + devices[i].y.milli
                        = device_list[i].y
                   /\ devices[i].x.milli \in 0..999
                   /\ devices[i].y.milli \in 0..999
                   /\ devices[i].q = device_list[i].q)
    /\ [](reply.cmd = "read_devices"
          => \/ reply.val = <<>>
             \/ \E r \in Rosters : Addresses(reply.val) = Addresses(r))
    /\ [][/\ (reply' # reply /\ reply'.cmd = "read_devices")
             => reply'.val = devices
          /\ LoopStep => reply' = reply]_vars

\* C8 witness: a read_devices returned the whole seeded roster and a later
\* merge has changed the registry but not the copy.
C8_Witness ==
    /\ reply.cmd = "read_devices"
    /\ Len(reply.val) = Len(devices)
    /\ Addresses(reply.val) = Addresses(devices)
    /\ reply.val # devices
    /\ pc = "sleep"

\* The rows mmrun can write.
DataRows == { FormatRow(l[i]) : i \in 1..2, l \in DeviceLists }
IsLog(lines) ==
    /\ Len(lines) >= 1
    /\ lines[1] = Header
    /\ \A i \in 2..Len(lines) : lines[i] \in DataRows

\* C9 as claimed: whenever a recording is or has been active the file is the
\* header followed by data rows, and a begin_recording leaves the header
\* alone in it.
C9_Original ==
    /\ (savefile = Some \/ file.exists) => IsLog(file.lines)

\* C10: a row is appended only in a turn of the loop, with a sink, for a
\* sample newer than prev_time, and prev_time becomes that sample's time;
\* prev_time changes in no other step; a sample not newer than prev_time,
\* of whatever device, is dropped.
C10_SingleWatermark ==
    [][/\ Appends
          => /\ pc = "write" /\ InTurn
             /\ savefile = Some
             /\ device_list[idx].update_time > prev_time
             /\ prev_time' = device_list[idx].update_time
             /\ file'.lines[Len(file'.lines)] = FormatRow(device_list[idx])
       /\ prev_time' # prev_time => Appends
       /\ (pc = "log" /\ InTurn /\ LoopStep
             /\ device_list[idx].update_time <= prev_time)
          => /\ file' = file
             /\ prev_time' = prev_time
             /\ pc' = "merge" /\ idx' = idx + 1
      ]_vars

\* C10 witness: in one batch the first hedgehog's sample was written and the
\* sample of the other hedgehog, not newer than it, was dropped.
C10_Witness ==
    /\ pc = "merge" /\ idx = 3
    /\ savefile = Some
    /\ \A i \in 1..2 : IsHedge(device_list[i].dtype) /\ device_list[i].q > 0
    /\ device_list[1].address # device_list[2].address
    /\ device_list[2].update_time <= device_list[1].update_time
    /\ prev_time = device_list[1].update_time
    /\ file.lines[Len(file.lines)] = FormatRow(device_list[1])

\* The rows of hedgehog samples with a fix.
HedgeRows ==
    UNION { { FormatRow(l[i]) :
                i \in { j \in 1..Len(l) : IsHedge(l[j].dtype) /\ l[j].q > 0 } } :
            l \in DeviceLists }

\* C11: every line of the log file but the header is the row of a hedgehog
\* sample with quality > 0; the turn of a sample that is not a hedgehog's
\* writes nothing and leaves prev_time alone; and when such a sample has
\* quality > 0 and its address is in the registry, its turn goes through the
\* merge, after which the record holds the sample's x, y and q.
C11_OnlyHedgehogsLogged ==
    /\ [](\A i \in 1..Len(file.lines) :
            file.lines[i] # Header => file.lines[i] \in HedgeRows)
    /\ [](InTurn /\ pc = "log" /\ Find(devices, device_list[idx].address) # 0
          => LET rec == devices[Find(devices, device_list[idx].address)]
             IN  /\ rec.x = MmToM(device_list[idx].x)
                 /\ rec.y = MmToM(device_list[idx].y)
                 /\ rec.q = device_list[idx].q)
    /\ [][/\ Appends => /\ IsHedge(device_list[idx].dtype)
                        /\ device_list[idx].q > 0
          /\ (InTurn /\ ~IsHedge(device_list[idx].dtype) /\ LoopStep)
             => /\ file' = file
                /\ prev_time' = prev_time
                /\ (pc = "merge" /\ device_list[idx].q > 0
                      /\ Find(devices, device_list[idx].address) # 0)
                   => pc' = "set_x"
                /\ pc = "log" => pc' = "merge" /\ idx' = idx + 1
         ]_vars

\* C11 witness: with a sink active and nothing written yet, the turn of a
\* fixed beacon's sample with quality > 0, newer than prev_time, is over: its
\* record holds the sample, the file holds the header alone and prev_time has
\* not moved.
C11_Witness ==
    /\ pc = "merge" /\ idx = 2
    /\ ~IsHedge(device_list[1].dtype)
    /\ device_list[1].q > 0
    /\ savefile = Some
    /\ file.lines = <<Header>>
    /\ prev_time = UNIX_EPOCH
    /\ device_list[1].update_time > prev_time
    /\ Find(devices, device_list[1].address) # 0
    /\ devices[Find(devices, device_list[1].address)].q = device_list[1].q
    /\ devices[Find(devices, device_list[1].address)].x = MmToM(device_list[1].x)

\* A beacon key of the devices section whose value parses to the integer 1.
Enabled(pair) ==
    /\ pair[1].head = "beacon"
    /\ ParsesU32(pair[2])
    /\ U32Table[pair[2]] = 1

Present(sec, name) == HasKey(sec, Plain(name))
Numeric(sec, name) == Present(sec, name) /\ ParsesF64(Get(sec, Plain(name)))

\* What is found at the path lacks a required section or field, or holds a
\* malformed one: the file itself, the floorplan section, its three numbers,
\* the floor-image key and its non-empty file, the devices section, and for
\* every enabled beacon its section, its Hedgehog_mode, and, the beacon being
\* fixed, its Position_X and Position_Y.
Defective(found) ==
    \/ ~found.loaded
    \/ ~HasSection(found.ini, "floorplan")
    \/ \E k \in {"shift_x_m", "shift_y_m", "scale_pixels_per_m"} :
          ~Numeric(found.ini["floorplan"], k)
    \/ FirstFloor(found.ini["floorplan"]) = 0
    \/ LET image == found.ini["floorplan"][FirstFloor(found.ini["floorplan"])][2]
       IN  image \notin DOMAIN ImageFiles \/ ImageFiles[image].data = <<>>
    \/ ~HasSection(found.ini, "devices")
    \/ \E i \in 1..Len(found.ini["devices"]) :
          LET pair == found.ini["devices"][i]
              name == "beacon " \o pair[1].tail
          IN  /\ Enabled(pair)
              /\ \/ ~HasSection(found.ini, name)
                 \/ ~Present(found.ini[name], "Hedgehog_mode")
                 \/ /\ Get(found.ini[name], Plain("Hedgehog_mode")) = "0"
                    /\ \/ ~Numeric(found.ini[name], "Position_X")
                       \/ ~Numeric(found.ini[name], "Position_Y")

\* What parse_map returns and emits when parse_ini fails.
EmptyResult == [devices |-> <<>>, plan |-> <<>>]
ParseFailed == "failed to parse ini map file"

\* C12: parse_ini fails on every file that lacks a required section or field
\* or holds a malformed one, whatever was parsed before the defect; a
\* parse_map that returns has either emitted the failure message and returned
\* no device and no descriptor, or emitted nothing and returned the whole
\* device list and descriptor of a file parse_ini accepted; never a part of
\* a defective file's list.
C12_ParseAllOrNothing ==
    /\ [](\A path \in Paths :
            Defective(IniFile(path)) => ParseResult[path] = Err)
    /\ [][(reply' # reply /\ reply'.cmd = "parse_map")
          => \/ /\ reply'.val = EmptyResult
                /\ emitted' = Append(emitted, ParseFailed)
             \/ /\ emitted' = emitted
                /\ \E path \in Paths :
                      /\ ~Defective(IniFile(path))
                      /\ ParseResult[path].ok
                      /\ reply'.val = [devices |-> ParseResult[path].devices,
                                       plan |-> <<ParseResult[path].plan>>]
         ]_vars

\* C12 witness: a load has failed and returned nothing, and among the files
\* there is one whose beacon 3 is parsed before the missing section of
\* beacon 4 is met, and one with both beacons whole.
C12_Witness ==
    /\ reply = [cmd |-> "parse_map", val |-> EmptyResult]
    /\ emitted = <<ParseFailed>>
    /\ Defective(IniFile("nosection.ini"))
    /\ ParseBeacons(IniFiles["nosection.ini"],
                    SubSeq(IniFiles["nosection.ini"]["devices"], 1, 4),
                    1, <<>>).devices = ParseResult["good.ini"].devices
    /\ Len(ParseResult["two.ini"].devices) = 2

\* The files that can be read and have a devices section, and such a file
\* without the pairs of its devices section that have the key of pair i.
Listed == { path \in DOMAIN IniFiles : HasSection(IniFiles[path], "devices") }
Pairs(path) == 1..Len(IniFiles[path]["devices"])
Pair(path, i) == IniFiles[path]["devices"][i]
WithoutPair(path, i) ==
    [loaded |-> TRUE,
     ini |-> With(IniFiles[path], "devices",
                  Drop(IniFiles[path]["devices"], Pair(path, i)[1]))]

\* A pair that is not a beacon key, or a beacon key with an integer other
\* than 1; and a beacon key whose value is not an integer.
NotBeaconOrOff(pair) ==
    \/ pair[1].head # "beacon"
    \/ ParsesU32(pair[2]) /\ U32Table[pair[2]] # 1
NotInteger(pair) == pair[1].head = "beacon" /\ ~ParsesU32(pair[2])

\* The file with nothing in its devices section but the pairs that enable a
\* beacon, and what parse_map returns for a result of parse_ini.
OnlyEnabling(path) ==
    [loaded |-> TRUE,
     ini |-> With(IniFiles[path], "devices",
                  SelectSeq(IniFiles[path]["devices"], Enabled))]
Returned(result) ==
    IF result.ok
    THEN [devices |-> result.devices, plan |-> <<result.plan>>]
    ELSE EmptyResult

IgnoresOthers ==
    \A path \in Listed : \A i \in Pairs(path) :
        NotBeaconOrOff(Pair(path, i))
        => ParseIni(WithoutPair(path, i)) = ParseResult[path]
OnlyEnabled ==
    \A path \in Listed :
        ParseResult[path].ok
        => \A k \in 1..Len(ParseResult[path].devices) :
              \E i \in Pairs(path) :
                 /\ Enabled(Pair(path, i))
                 /\ ParsesU8(Pair(path, i)[1].tail)
                 /\ U32Table[Pair(path, i)[1].tail]
                      = ParseResult[path].devices[k].address
FailsOnNotInteger ==
    \A path \in Listed :
        (\E i \in Pairs(path) : NotInteger(Pair(path, i)))
        => ParseResult[path] = Err

OnlyFields(k, names) ==
    \A f \in {"address", "is_hedge", "x", "y", "q"} \ names :
        devices'[k][f] = devices[k][f]

\* C14: no step removes a record or changes the address or the class of
\* one; the steps of the merge write x, then y, then q of the record found,
\* each leaving the other fields alone, even when the sample's device type
\* is of the other class than the record's.
C14_IdentityImmutable ==
    [][/\ Len(devices') >= Len(devices)
       /\ \A k \in 1..Len(devices) :
             /\ devices'[k].address = devices[k].address
             /\ devices'[k].is_hedge = devices[k].is_hedge
             /\ pc \notin {"set_x", "set_y", "set_q"} => devices'[k] = devices[k]
             /\ pc = "set_x" => OnlyFields(k, {"x"})
             /\ pc = "set_y" => OnlyFields(k, {"y"})
             /\ pc = "set_q" => OnlyFields(k, {"q"})
      ]_vars

\* C14 witness: the sample of a device now of hedgehog type has been merged
\* into the record seeded for its address as a fixed beacon, and the record
\* is still a fixed beacon's.
C14_Witness ==
    /\ pc = "log" /\ InTurn
    /\ IsHedge(device_list[idx].dtype)
    /\ Find(devices, device_list[idx].address) # 0
    /\ LET rec == devices[Find(devices, device_list[idx].address)]
       IN  /\ ~rec.is_hedge
           /\ rec.q = device_list[idx].q
           /\ rec.q > 0
           /\ rec.x = MmToM(device_list[idx].x)

\* C15 as claimed: while mmrun sleeps between a merge and the next refresh
\* it does not hold the mutex, so a waiting command can take it.
C15_Original ==
    pc = "sleep" => /\ mutex # "mmrun"
                    /\ \A t \in Threads :
                          call[t].cmd = "read_devices" => ENABLED ReadDevices(t)

\* mmrun is inside a call of the positioning source; is seeding; is merging.
InSourceCall == pc \in {"open", "list", "refresh"}
Seeding == pc = "seed"
Merging == pc \in {"merge", "set_x", "set_y", "set_q", "log", "write"}

\* C16 as claimed: while mmrun is inside open_port, get_device_list or
\* update_last_locations it does not hold the mutex, and it holds the mutex
\* only while it seeds or merges.
C16_Original ==
    /\ InSourceCall => mutex # "mmrun"
    /\ mutex = "mmrun" => Seeding \/ Merging

\* A stop_record call returns (it does not end in the panic of the lock).
StopReturns ==
    \E t \in Threads :
        call[t].cmd = "stop_record" /\ call'[t] = Idle /\ ~poisoned

\* C17: from the sink test to the write mmrun holds the mutex and the sink
\* stays present, so no stop_record or start_record falls between them; a
\* stop_record that returns leaves no sink; a row is appended only through
\* a present sink, to a file that begins with its header; and while the
\* sink is None the file changes only by a start_record.
C17_LogTurnAtomic ==
    /\ [](pc = "write" => /\ mutex = "mmrun"
                          /\ savefile = Some
                          /\ file.lines # <<>>
                          /\ file.lines[1] = Header)
    /\ [][/\ StopReturns => savefile' = None /\ pc # "write"
          /\ pc = "write" => savefile' = savefile
          /\ Appends => /\ pc = "write"
                        /\ savefile = Some
                        /\ file.lines # <<>>
                        /\ file.lines[1] = Header
                        /\ file'.lines[1] = Header
          /\ (savefile = None /\ file' # file)
             => \E t \in Threads :
                   call[t].cmd = "start_record" /\ call'[t] = Idle
         ]_vars

\* C17 witness: a recording with a row in it was ended while a begin_recording
\* is already waiting, and the loop has since passed over a hedgehog sample
\* with a fix, newer than the last row, without writing it.
C17_Witness ==
    /\ savefile = None
    /\ Len(file.lines) = 2
    /\ call["t1"].cmd = "start_record"
    /\ pc = "merge" /\ idx = 2
    /\ IsHedge(device_list[1].dtype)
    /\ device_list[1].q > 0
    /\ device_list[1].update_time > prev_time

\* The (x, y, q) of a record, and the triples one sample gives: its
\* millimetres divided by 1000 and its quality.
Triple(rec) == [x |-> rec.x, y |-> rec.y, q |-> rec.q]
SampleTriples ==
    { [x |-> MmToM(l.x), y |-> MmToM(l.y), q |-> l.q] : l \in Locations }
Whole(rec) == Triple(rec) \in SampleTriples

\* C18: every record read_devices has returned holds the x, y and q of one
\* sample, the one it was seeded with or one merged whole; a read returns the
\* registry of a moment at which no merge is between its first and its last
\* assignment, although the registry itself passes through torn states.
C18_ReadsNotTorn ==
    /\ [](reply.cmd = "read_devices"
          => \A k \in 1..Len(reply.val) : Whole(reply.val[k]))
    /\ [][(reply' # reply /\ reply'.cmd = "read_devices")
          => /\ reply'.val = devices
             /\ pc \notin {"set_x", "set_y", "set_q"}
         ]_vars

\* C18 witness: a read_devices waits while a merge is at its second
\* assignment and the record in the registry is torn, x of the new sample
\* with y and q of the old; the last read returned that record whole.
C18_Witness ==
    /\ pc = "set_y"
    /\ call["t1"].cmd = "read_devices"
    /\ reply.cmd = "read_devices"
    /\ LET k == Find(devices, device_list[idx].address)
       IN  /\ ~Whole(devices[k])
           /\ devices[k].x = MmToM(device_list[idx].x)
           /\ devices[k].y # MmToM(device_list[idx].y)
           /\ k <= Len(reply.val)
           /\ Whole(reply.val[k])
           /\ reply.val[k].address = devices[k].address

\* mmrun has ended in the panic of a row write: it stopped inside a turn.
RowWriteFailed == pc = "panicked" /\ idx >= 1

\* C19: a write of a row that does not append the row ends mmrun there, in
\* the middle of the batch, with the mutex poisoned and the sink still in
\* place; from then on mmrun takes no step, no record, no line of the file
\* and nothing else of AppState changes, is_mmrunning stays true and mmrun is
\* not launched again.
C19_RowWriteFailureFatal ==
    /\ [](RowWriteFailed => /\ poisoned
                            /\ mutex = "free"
                            /\ is_mmrunning
                            /\ launched = 1
                            /\ savefile = Some)
    /\ [][/\ (pc = "write" /\ LoopStep /\ ~Appends)
             => /\ pc' = "panicked" /\ idx' = idx
                /\ UNCHANGED <<devices, file, savefile, prev_time>>
          /\ RowWriteFailed
             => /\ RowWriteFailed'
                /\ UNCHANGED <<is_mmrunning, devices, savefile, file,
                               prev_time, launched, pc, idx, device_list>>
         ]_vars

\* C19 witness: the write of the row of the first sample of a batch failed;
\* the second sample, with a fix and a known address, was never merged, and
\* an mmstart made since is about to end without launching anything.
C19_Witness ==
    /\ RowWriteFailed
    /\ idx = 1 /\ Len(device_list) = 2
    /\ device_list[2].q > 0
    /\ Find(devices, device_list[2].address) # 0
    /\ devices[Find(devices, device_list[2].address)].q = 0
    /\ call["t1"].cmd = "mmstart"
    /\ file.lines = <<Header>>

\* The time a row carries: the update_time of the samples it formats.
RowTimes ==
    [line \in HedgeRows |->
        CHOOSE t \in Times :
            \E l \in DeviceLists : \E i \in 1..Len(l) :
                FormatRow(l[i]) = line /\ l[i].update_time = t]
RowTime(line) == RowTimes[line]

\* A start_record or stop_record call ends.
RecordingCommand ==
    \E t \in Threads :
        call[t].cmd \in {"start_record", "stop_record"} /\ call'[t] = Idle

\* C20: prev_time is set when mmrun enters its loop and from then on changes
\* only in the step that appends a row, where it grows to the row's time; no
\* start_record or stop_record changes it, so it is at every moment the time
\* of the last row written to any file (the epoch when there is none): the
\* rows of the file carry strictly increasing times, none above prev_time,
\* and a row appended to a later file is newer than every row written
\* before.
C20_WatermarkOutlivesRecording ==
    /\ [](\A i \in 2..Len(file.lines) :
            /\ RowTime(file.lines[i]) <= prev_time
            /\ \A j \in 2..(i - 1) :
                  RowTime(file.lines[j]) < RowTime(file.lines[i]))
    /\ [][/\ RecordingCommand => prev_time' = prev_time
          /\ prev_time' >= prev_time
          /\ prev_time' # prev_time
             => /\ Appends
                /\ prev_time' = device_list[idx].update_time
                /\ RowTime(file'.lines[Len(file'.lines)]) = prev_time'
          /\ Appends => prev_time' > prev_time
         ]_vars

\* C20 witness: nothing was ever written; a read_devices made in an earlier
\* iteration returned the record of a hedgehog with the fix of the sample at
\* hand, so the sample was seen before; now, a recording begun, the loop is
\* about to write it.
C20_Witness ==
    /\ pc = "write"
    /\ prev_time = UNIX_EPOCH
    /\ file.lines = <<Header>>
    /\ reply.cmd = "read_devices"
    /\ LET k == Find(devices, device_list[idx].address)
       IN  /\ k # 0 /\ k <= Len(reply.val)
           /\ reply.val[k] = devices[k]
           /\ devices[k].q > 0
           /\ devices[k].is_hedge

====
